---- MODULE Spec2Model ----
(***************************************************************************)
(* Media-mention report service (src/main.py).                             *)
(*                                                                         *)
(* POST /analyser_json turns a batch of articles into KPI counters, three  *)
(* charts, a keyword summary sentence and a top-authors table, composes an *)
(* HTML document, writes it to static/rapport_veille.html and returns it.  *)
(* GET /rapport serves that file.                                          *)
(*                                                                         *)
(* The handler analyser_json is a coroutine without any await: once the    *)
(* event loop starts it, no other coroutine runs until it returns.  The    *)
(* file is read by GET /rapport outside the event loop (file reads of a    *)
(* FileResponse run in worker threads), so reads interleave with the       *)
(* open / write / close of the handler.  The model is of one server        *)
(* process (one event loop, one pyplot state) started in a directory that  *)
(* holds no report yet.                                                    *)
(***************************************************************************)
EXTENDS Integers, Sequences, FiniteSets, TLC

VARIABLES run, loop, figs, file, rd, lastOk

vars == <<run, loop, figs, file, rd, lastOk>>

(***************************************************************************)
(* Bounds of the model.                                                    *)
(***************************************************************************)
MaxBatch == 3          \* records per batch in the KPI / date / keyword runs
MaxAuthorBatch == 7    \* records per batch in the author-ranking runs
NChunks == 2           \* pieces in which a document reaches the file

(***************************************************************************)
(* Program constants.                                                      *)
(***************************************************************************)
TopKeywords == 6       \* counter.most_common(6)
TopAuthors == 5        \* .head(5)
DaySeconds == 86400    \* seconds of a calendar day (.dt.date)
MinDay == -719162      \* 0001-01-01, first day datetime can represent
MaxDay == 2932896      \* 9999-12-31, last day datetime can represent

RunIds == {1, 2}

\* weight of the high limb of an epoch value (a representation choice)
Limb == 10 ^ 9

(***************************************************************************)
(* Article (pydantic model).  Only the fields the pipeline reads are kept: *)
(* author, published_at, sentiment_label, keywords; title, content_excerpt *)
(* and source_link are carried into the frame and never read.              *)
(*                                                                         *)
(* published_at is an unbounded Python int.  The smallest epoch value that *)
(* utcfromtimestamp rejects (253402300800) does not fit TLC's integers,    *)
(* so an epoch value is kept in two limbs:                                 *)
(* value = hi * Limb + lo with 0 <= lo < Limb.                             *)
(***************************************************************************)
Epoch(hi, lo) == [hi |-> hi, lo |-> lo]

Article(a, t, s, k) ==
    [author |-> a, published_at |-> t, sentiment_label |-> s, keywords |-> k]

\* the UTC day number of an epoch value: floor(value / DaySeconds), computed
\* on the limbs
EpochDay(ts) ==
    ts.hi * (Limb \div DaySeconds)
      + ((ts.hi * (Limb % DaySeconds) + ts.lo) \div DaySeconds)

\* datetime.utcfromtimestamp(ts) raises (ValueError / OverflowError) when the
\* instant falls outside years 1..9999.
ValidTimestamp(ts) == MinDay <= EpochDay(ts) /\ EpochDay(ts) <= MaxDay

\* .dt.date of utcfromtimestamp(ts): the UTC calendar day, as a day number.
UtcDate(ts) == EpochDay(ts)

\* str.lower() on the keyword vocabulary of the model.
Lower(kw) ==
    CASE kw = "IA" -> "ia"
      [] kw = "Ia" -> "ia"
      [] kw = "Politique" -> "politique"
      [] kw = "CLIMAT" -> "climat"
      [] kw = "Positive" -> "positive"
      [] OTHER -> kw

(***************************************************************************)
(* Sequence helpers.                                                       *)
(***************************************************************************)
Range(s) == {s[i] : i \in 1..Len(s)}

Min(a, b) == IF a <= b THEN a ELSE b

\* number of positions of s holding v
Occurrences(s, v) == Cardinality({i \in 1..Len(s) : s[i] = v})

\* first position of s holding v (v occurs in s)
FirstIndex(s, v) == CHOOSE i \in 1..Len(s) : s[i] = v /\ \A j \in 1..(i-1) : s[j] # v

\* s[:n]
Head_(s, n) == SubSeq(s, 1, Min(n, Len(s)))

RECURSIVE Flatten(_)
Flatten(ss) == IF ss = <<>> THEN <<>> ELSE Head(ss) \o Flatten(Tail(ss))

\* the distinct values of s in order of first appearance: the key order of a
\* Counter / of the hash table behind value_counts
RECURSIVE Distinct(_)
Distinct(s) ==
    IF s = <<>> THEN <<>>
    ELSE LET front == Distinct(SubSeq(s, 1, Len(s) - 1))
             x == s[Len(s)]
         IN IF x \in Range(front) THEN front ELSE Append(front, x)

\* [key, n] pairs of s in order of first appearance
Tally(s) == LET d == Distinct(s)
            IN [i \in 1..Len(d) |-> [key |-> d[i], n |-> Occurrences(s, d[i])]]

\* variant: among equal counts the entry met last comes first
LastLargest(items) ==
    CHOOSE i \in 1..Len(items) :
        /\ \A j \in 1..Len(items) : items[j].n <= items[i].n
        /\ \A j \in (i+1)..Len(items) : items[j].n < items[i].n

\* position of the entry to emit next when sorting by n descending and
\* keeping entries with equal n in their given order
FirstLargest(items) ==
    CHOOSE i \in 1..Len(items) :
        /\ \A j \in 1..Len(items) : items[j].n <= items[i].n
        /\ \A j \in 1..(i-1) : items[j].n < items[i].n

Without(items, i) == SubSeq(items, 1, i - 1) \o SubSeq(items, i + 1, Len(items))

\* stable sort by n, descending
RECURSIVE SortByCountDesc(_)
SortByCountDesc(items) ==
    IF items = <<>> THEN <<>>
    ELSE LET i == FirstLargest(items)
         IN <<items[i]>> \o SortByCountDesc(Without(items, i))

\* ascending order of a set of integers
RECURSIVE SortAsc(_)
SortAsc(S) ==
    IF S = {} THEN <<>>
    ELSE LET m == CHOOSE x \in S : \A y \in S : x <= y
         IN <<m>> \o SortAsc(S \ {m})

(***************************************************************************)
(* The pipeline of analyser_json, as functions of the batch.               *)
(***************************************************************************)

\* lines 49-51: pd.DataFrame of an empty list has no columns, so
\* df["published_at"] raises KeyError; utcfromtimestamp raises on an instant
\* it cannot represent.  Either exception ends the run.
\* variant: the conversion of line 51 accepts every value
FrameNeverRaises(batch) == FALSE

FrameRaises(batch) ==
    \/ Len(batch) = 0
    \/ \E i \in 1..Len(batch) : ~ValidTimestamp(batch[i].published_at)

\* lines 49-55 and 65: one row per article, in batch order, with the renamed
\* columns and the derived Period column.
Frame(batch) ==
    [i \in 1..Len(batch) |->
        [authorName |-> batch[i].author,
         sentimentHumanReadable |-> batch[i].sentiment_label,
         Period |-> UtcDate(batch[i].published_at),
         keywords |-> batch[i].keywords]]

Column(df, c) == [i \in 1..Len(df) |-> df[i][c]]

\* variant: labels compared without regard to case
CountLabelAnyCase(df, label) ==
    Cardinality({i \in 1..Len(df) : Lower(df[i].sentimentHumanReadable) = label})

\* (df["sentimentHumanReadable"] == label).sum()
CountLabel(df, label) == Occurrences(Column(df, "sentimentHumanReadable"), label)

\* lines 57-62
Kpis(df) ==
    [total_mentions |-> Len(df),
     positive |-> CountLabel(df, "positive"),
     negative |-> CountLabel(df, "negative"),
     neutral |-> CountLabel(df, "neutral")]

\* variant: value_counts(sort=False)
ValueCountsUnsorted(col) == Tally(col)

\* Series.value_counts(): [key, n] rows by n descending; rows with equal n
\* stay in order of first appearance.
ValueCounts(col) == SortByCountDesc(Tally(col))

\* variant: sort_index() left out
SortIndexSkipped(rows) == rows

\* Series.sort_index(): the rows by key ascending
SortIndex(rows) ==
    LET keys == SortAsc({rows[i].key : i \in 1..Len(rows)})
    IN [k \in 1..Len(keys) |->
           rows[CHOOSE i \in 1..Len(rows) : rows[i].key = keys[k]]]

\* line 66
MentionsOverTime(df) == SortIndex(ValueCounts(Column(df, "Period")))

\* line 76 (every keywords value is a list: pydantic validates list[str])
AllKeywords(df) ==
    LET flat == Flatten(Column(df, "keywords"))
    IN [i \in 1..Len(flat) |-> Lower(flat[i])]

\* Counter(all).most_common(n): by count descending, equal counts in the
\* order first encountered
MostCommon(all, n) == Head_(SortByCountDesc(Tally(all)), n)

\* line 92
TopKeywordList(all) ==
    LET mc == MostCommon(all, TopKeywords)
    IN [i \in 1..Len(mc) |-> mc[i].key]

\* sep.join(words), as the sequence of its pieces
RECURSIVE Join(_, _)
Join(words, sep) ==
    IF Len(words) = 0 THEN <<>>
    ELSE IF Len(words) = 1 THEN words
    ELSE <<Head(words), sep>> \o Join(Tail(words), sep)

SentenceOpening == "Les mots-cles les plus recurrents dans la couverture mediatique sont "
SentenceClosing == ". Cela reflete les thematiques principales abordees dans les articles analyses."
Comma == ", "
Et == " et "

\* lines 77-98: the summary paragraph as the sequence of its pieces; <<>> is
\* the empty string.
SummaryText(all) ==
    IF all = <<>> THEN <<>>
    ELSE LET top == TopKeywordList(all)
         IN IF top = <<>> THEN <<>>
            ELSE <<SentenceOpening>>
                 \o Join(SubSeq(top, 1, Len(top) - 1), Comma)
                 \o <<Et, top[Len(top)], SentenceClosing>>

\* fig_to_base64 (lines 27-31): the encoded PNG of a figure is determined by
\* what the figure shows; "" is <<>>.
FigToBase64(fig) == <<"png", fig.kind, fig.data, fig.xrot>>

Figure(num, kind, data) == [num |-> num, kind |-> kind, data |-> data, xrot |-> FALSE]

\* lines 78-88 and 100: the word cloud of the joined keywords, or ""
KeywordsFreq(all) ==
    IF all = <<>> THEN <<>>
    ELSE FigToBase64(Figure(0, "wordcloud", all))

\* lines 103-106: per author, the count of each sentiment label.  The model
\* never holds more than ten authors, so head(10) keeps every
\* row; the row order of the chart is not modelled.
AuthorSentiment(df) ==
    LET authors == Range(Column(df, "authorName"))
        labels == Range(Column(df, "sentimentHumanReadable"))
    IN [a \in authors |->
          [l \in labels |->
             Cardinality({i \in 1..Len(df) : df[i].authorName = a
                                              /\ df[i].sentimentHumanReadable = l})]]

\* lines 108-114
SentimentsAuteurs(df) == FigToBase64(Figure(0, "barh", AuthorSentiment(df)))

\* lines 117-124: the rows of the top-authors table
TopTable(df) == Head_(ValueCounts(Column(df, "authorName")), TopAuthors)

\* lines 127-178
HtmlReport(kpis, evolution, keywordsFreq, summary, sentiments, table) ==
    [kpis |-> kpis,
     evolution_mentions_b64 |-> evolution,
     keywords_freq_b64 |-> keywordsFreq,
     summary_text |-> summary,
     sentiments_auteurs_b64 |-> sentiments,
     top_table |-> table]

\* the document as the pieces in which it reaches the file
Serialise(html) == [i \in 1..NChunks |-> [doc |-> html, part |-> i]]

(***************************************************************************)
(* State.                                                                  *)
(*   run[r]  the locals of request r of POST /analyser_json and where it   *)
(*           stands (pc)                                                   *)
(*   loop    the coroutine the event loop is executing (0: none)           *)
(*   figs    pyplot's open figures, least recently activated first; the    *)
(*           last one is the current figure                                *)
(*   file    static/rapport_veille.html                                    *)
(*   rd      a GET /rapport request: its position in the file and the      *)
(*           pieces it has read; overlap records that a write of the file  *)
(*           was in progress at some moment of the read                    *)
(*   lastOk  the html_report of the latest run that returned (history)     *)
(***************************************************************************)
None == [some |-> FALSE]
Some(v) == [some |-> TRUE, val |-> v]

IdleRun ==
    [pc |-> "idle", batch |-> <<>>, df |-> <<>>, kpis |-> None,
     mentions_over_time |-> <<>>, fig1 |-> 0, flushed |-> 0,
     evolution_mentions_b64 |-> <<>>, keywords_freq_b64 |-> <<>>,
     summary_text |-> <<>>, sentiments_auteurs_b64 |-> <<>>,
     html_report |-> None, response |-> None, before |-> None]

NoFile == [exists |-> FALSE, data |-> <<>>]

IdleReader == [pc |-> "idle", pos |-> 0, got |-> <<>>, overlap |-> FALSE]

\* a run is between open(..., "w") and the close of the with block
WriteInProgress == \E r \in RunIds : run[r].pc \in {"opened", "written"}

\* the reader sees the steps of a writer that fall inside its read
Overlapped == IF rd.pc = "reading" THEN [rd EXCEPT !.overlap = TRUE] ELSE rd

\* variant: a handler run in the thread pool ("def"), free to interleave
MayRunInterleaved(r) == TRUE

\* line 47: analyser_json is "async def" and never awaits, so request r runs
\* only while no other request holds the event loop, and keeps it to the end.
MayRun(r) == loop \in {0, r}

\* plt.subplots(): the number of the new figure (max + 1)
NewFigNum == IF figs = <<>> THEN 1
             ELSE 1 + (CHOOSE n \in {figs[i].num : i \in 1..Len(figs)} :
                          \A i \in 1..Len(figs) : figs[i].num <= n)

FigNumbered(n) == CHOOSE i \in 1..Len(figs) : figs[i].num = n

\* variant: open(path, "a")
OpenAppending(f) == [exists |-> TRUE, data |-> f.data]

\* open(path, "w"): the file exists and is empty
OpenForWriting(f) == [exists |-> TRUE, data |-> <<>>]

\* the request reaches the server; its coroutine is created
Receive(r, b) ==
    /\ run[r].pc = "idle"
    /\ run' = [run EXCEPT ![r] = [IdleRun EXCEPT !.pc = "queued", !.batch = b]]
    /\ UNCHANGED <<loop, figs, file, rd, lastOk>>

\* lines 48-62: the frame, or the exception that ends the run
BuildFrame(r) ==
    /\ run[r].pc = "queued"
    /\ MayRun(r)
    /\ IF FrameRaises(run[r].batch)
       THEN /\ run' = [run EXCEPT ![r].pc = "failed", ![r].before = Some(file)]
            /\ loop' = 0
       ELSE /\ LET df == Frame(run[r].batch)
               IN run' = [run EXCEPT ![r].pc = "frame", ![r].df = df,
                                     ![r].kpis = Some(Kpis(df)),
                                     ![r].before = Some(file)]
            /\ loop' = r
    /\ UNCHANGED <<figs, file, rd, lastOk>>

\* lines 65-70: plt.subplots makes a new figure and makes it current; the
\* daily series is plotted on it
PlotMentions(r) ==
    /\ run[r].pc = "frame"
    /\ MayRun(r)
    /\ LET n == NewFigNum
           series == MentionsOverTime(run[r].df)
       IN /\ figs' = Append(figs, Figure(n, "line", series))
          /\ run' = [run EXCEPT ![r].pc = "plotted", ![r].fig1 = n,
                                ![r].mentions_over_time = series]
    /\ loop' = r
    /\ UNCHANGED <<file, rd, lastOk>>

\* line 71: plt.xticks acts on the current figure (and makes one when there
\* is none)
RotateTicks(r) ==
    /\ run[r].pc = "plotted"
    /\ MayRun(r)
    /\ figs' = IF figs = <<>>
               THEN <<[Figure(1, "blank", <<>>) EXCEPT !.xrot = TRUE]>>
               ELSE [figs EXCEPT ![Len(figs)].xrot = TRUE]
    /\ run' = [run EXCEPT ![r].pc = "rotated"]
    /\ loop' = r
    /\ UNCHANGED <<file, rd, lastOk>>

\* lines 72-73: fig1 is encoded, then closed
SaveMentions(r) ==
    /\ run[r].pc = "rotated"
    /\ MayRun(r)
    /\ LET i == FigNumbered(run[r].fig1)
       IN /\ run' = [run EXCEPT ![r].pc = "saved",
                                ![r].evolution_mentions_b64 = FigToBase64(figs[i])]
          /\ figs' = Without(figs, i)
    /\ loop' = r
    /\ UNCHANGED <<file, rd, lastOk>>

\* lines 75-100.  fig_kw is made by plt.subplots, drawn through its axes and
\* closed within the step: the open figures are as before.
Keywords(r) ==
    /\ run[r].pc = "saved"
    /\ MayRun(r)
    /\ LET all == AllKeywords(run[r].df)
       IN run' = [run EXCEPT ![r].pc = "keywords",
                             ![r].keywords_freq_b64 = KeywordsFreq(all),
                             ![r].summary_text = SummaryText(all)]
    /\ loop' = r
    /\ UNCHANGED <<figs, file, rd, lastOk>>

\* lines 102-114.  fig3 likewise is made, drawn through its axes and closed.
SentimentChart(r) ==
    /\ run[r].pc = "keywords"
    /\ MayRun(r)
    /\ run' = [run EXCEPT ![r].pc = "authors",
                          ![r].sentiments_auteurs_b64 = SentimentsAuteurs(run[r].df)]
    /\ loop' = r
    /\ UNCHANGED <<figs, file, rd, lastOk>>

\* lines 116-178
Compose(r) ==
    /\ run[r].pc = "authors"
    /\ MayRun(r)
    /\ run' = [run EXCEPT ![r].pc = "composed",
                  ![r].html_report =
                      Some(HtmlReport(run[r].kpis.val,
                                      run[r].evolution_mentions_b64,
                                      run[r].keywords_freq_b64,
                                      run[r].summary_text,
                                      run[r].sentiments_auteurs_b64,
                                      TopTable(run[r].df)))]
    /\ loop' = r
    /\ UNCHANGED <<figs, file, rd, lastOk>>

\* lines 179-180
OpenReport(r) ==
    /\ run[r].pc = "composed"
    /\ MayRun(r)
    /\ file' = OpenForWriting(file)
    /\ run' = [run EXCEPT ![r].pc = "opened"]
    /\ rd' = Overlapped
    /\ loop' = r
    /\ UNCHANGED <<figs, lastOk>>

\* line 181: f.write hands the text to the buffered file; any number of its
\* leading pieces reach the file now, the rest when the file is closed
WriteReport(r) ==
    /\ run[r].pc = "opened"
    /\ MayRun(r)
    /\ \E k \in 0..NChunks :
          /\ file' = [file EXCEPT !.data =
                         file.data \o SubSeq(Serialise(run[r].html_report.val), 1, k)]
          /\ run' = [run EXCEPT ![r].pc = "written", ![r].flushed = k]
    /\ rd' = Overlapped
    /\ loop' = r
    /\ UNCHANGED <<figs, lastOk>>

\* lines 180-186: leaving the with block flushes and closes the file; the
\* response is returned
CloseAndReturn(r) ==
    /\ run[r].pc = "written"
    /\ MayRun(r)
    /\ file' = [file EXCEPT !.data =
                   file.data \o SubSeq(Serialise(run[r].html_report.val),
                                       run[r].flushed + 1, NChunks)]
    /\ run' = [run EXCEPT ![r].pc = "done",
                  ![r].response = Some([kpis |-> run[r].kpis.val,
                                        html_report |-> run[r].html_report.val])]
    /\ lastOk' = run[r].html_report
    /\ rd' = Overlapped
    /\ loop' = 0
    /\ UNCHANGED figs

\* the response (or the error) has been sent; the locals are gone
Respond(r) ==
    /\ run[r].pc \in {"done", "failed"}
    /\ run' = [run EXCEPT ![r] = IdleRun]
    /\ UNCHANGED <<loop, figs, file, rd, lastOk>>

\* lines 188-190: FileResponse fails when there is no file, else opens it
ServeOpen ==
    /\ rd.pc = "idle"
    /\ rd' = IF file.exists
             THEN [pc |-> "reading", pos |-> 0, got |-> <<>>, overlap |-> WriteInProgress]
             ELSE [IdleReader EXCEPT !.pc = "failed"]
    /\ UNCHANGED <<run, loop, figs, file, lastOk>>

\* the body is read piece by piece up to the end of the file
ServeRead ==
    /\ rd.pc = "reading"
    /\ rd' = IF rd.pos < Len(file.data)
             THEN [rd EXCEPT !.pos = rd.pos + 1,
                             !.got = Append(rd.got, file.data[rd.pos + 1])]
             ELSE [rd EXCEPT !.pc = "done"]
    /\ UNCHANGED <<run, loop, figs, file, lastOk>>

ServeEnd ==
    /\ rd.pc \in {"done", "failed"}
    /\ rd' = IdleReader
    /\ UNCHANGED <<run, loop, figs, file, lastOk>>

Step(r) ==
    \/ BuildFrame(r)
    \/ PlotMentions(r)
    \/ RotateTicks(r)
    \/ SaveMentions(r)
    \/ Keywords(r)
    \/ SentimentChart(r)
    \/ Compose(r)
    \/ OpenReport(r)
    \/ WriteReport(r)
    \/ CloseAndReturn(r)

(***************************************************************************)
(* Inputs.                                                                 *)
(***************************************************************************)
\* the sequences over S of length 0..n
RECURSIVE SeqsUpTo(_, _)
SeqsUpTo(S, n) ==
    IF n = 0 THEN {<<>>}
    ELSE LET shorter == SeqsUpTo(S, n - 1)
         IN shorter \cup {Append(s, x) : s \in {t \in shorter : Len(t) = n - 1}, x \in S}

Labels == {"positive", "negative", "neutral", "Positive", "mixed"}

\* instants between 1969 and 2023, which pandas holds as datetime64[ns], so
\* that .dt.date applies to the column
Instants ==
    {Epoch(0, 0), Epoch(0, 86399), Epoch(0, 86400), Epoch(-1, 999999999),
     Epoch(1, 700000000)}

\* 254 * 10^9 s after the epoch lies beyond year 9999
BadInstant == Epoch(254, 0)

KeywordLists ==
    {<<>>, <<"IA", "Politique">>, <<"ia">>, <<"climat", "energie", "politique">>,
     <<"sante", "budget", "vote", "Ia">>, <<"eau">>, <<"CLIMAT", "eau", "climat">>}

AuthorNames == <<"a1", "a2", "a3", "a4", "a5", "a6">>

\* author sequences of length n in which the authors appear for the first
\* time in the order of AuthorNames.  The pipeline only compares author
\* names for equality, so every batch is one of these up to renaming.
RECURSIVE AuthorOrders(_)
AuthorOrders(n) ==
    IF n = 0 THEN {<<>>}
    ELSE UNION {{Append(s, k) :
                    k \in 1..Min(Cardinality(Range(s)) + 1, Len(AuthorNames))} :
                s \in AuthorOrders(n - 1)}

KpiBatches ==
    SeqsUpTo({Article("a1", Epoch(0, 0), l, <<>>) : l \in Labels}, MaxBatch)

SeriesBatches ==
    SeqsUpTo({Article("a1", t, "neutral", <<>>) : t \in Instants \cup {BadInstant}},
             MaxBatch)

KeywordBatches ==
    SeqsUpTo({Article("a1", Epoch(0, 0), "neutral", k) : k \in KeywordLists}, MaxBatch)

AuthorBatches ==
    {[i \in 1..Len(s) |-> Article(AuthorNames[s[i]], Epoch(0, 0), "neutral", <<>>)] :
        s \in UNION {AuthorOrders(n) : n \in 0..MaxAuthorBatch}}

MixedBatches ==
    SeqsUpTo({Article(a, t, l, k) :
                 a \in {"a2", "a1"}, t \in {Epoch(0, 86400), Epoch(0, 0)},
                 l \in {"positive", "mixed"}, k \in {<<>>, <<"eau", "IA">>}},
             MaxBatch - 1)

PipelineBatches ==
    KpiBatches \cup SeriesBatches \cup KeywordBatches \cup AuthorBatches
        \cup MixedBatches

ServerBatches ==
    {<<>>,
     <<Article("a1", Epoch(0, 0), "positive", <<"IA">>)>>,
     <<Article("a2", Epoch(0, 86400), "negative", <<>>),
       Article("a1", Epoch(0, 0), "mixed", <<"eau", "ia">>)>>,
     <<Article("a1", BadInstant, "neutral", <<>>)>>}

(***************************************************************************)
(* Specifications.                                                         *)
(***************************************************************************)
InitIdle ==
    /\ loop = 0
    /\ figs = <<>>
    /\ file = NoFile
    /\ rd = IdleReader
    /\ lastOk = None

\* the server after start-up: no request, no figure, no report file
Init ==
    /\ run = [r \in RunIds |-> IdleRun]
    /\ InitIdle

Next ==
    \/ \E r \in RunIds, b \in ServerBatches : Receive(r, b)
    \/ \E r \in RunIds : Step(r)
    \/ \E r \in RunIds : Respond(r)
    \/ ServeOpen
    \/ ServeRead
    \/ ServeEnd

Spec == Init /\ [][Next]_vars

\* one request on a fresh server, for every batch of PipelineBatches
InitPipeline ==
    /\ \E b \in PipelineBatches :
          run = [r \in RunIds |->
                    IF r = 1 THEN [IdleRun EXCEPT !.pc = "queued", !.batch = b]
                    ELSE IdleRun]
    /\ InitIdle

NextPipeline == Step(1)

SpecPipeline == InitPipeline /\ [][NextPipeline]_vars

(***************************************************************************)
(* Properties.                                                             *)
(***************************************************************************)
Returned(r) == run[r].pc = "done"

Finished(r) == run[r].pc \in {"done", "failed"}

Indices(b) == 1..Len(b)

CanonicalLabels == {"positive", "negative", "neutral"}

LabelledAs(b, l) == {i \in Indices(b) : b[i].sentiment_label = l}

\* C1: for a non-empty batch the returned total_mentions is the number of
\* records, each bucket counts exactly the records carrying that literal
\* label, so positive + negative + neutral <= total_mentions, with equality
\* exactly when every label is one of the three canonical strings.
C1_KpiCounts ==
    \A r \in RunIds :
        (Returned(r) /\ Len(run[r].batch) > 0) =>
            LET k == run[r].response.val.kpis
                b == run[r].batch
                buckets == k.positive + k.negative + k.neutral
            IN /\ k.total_mentions = Len(b)
               /\ k.positive = Cardinality(LabelledAs(b, "positive"))
               /\ k.negative = Cardinality(LabelledAs(b, "negative"))
               /\ k.neutral = Cardinality(LabelledAs(b, "neutral"))
               /\ buckets <= k.total_mentions
               /\ (buckets = k.total_mentions
                     <=> \A i \in Indices(b) : b[i].sentiment_label \in CanonicalLabels)

C1_Witness ==
    /\ Returned(1)
    /\ Len(run[1].batch) = 3
    /\ LabelledAs(run[1].batch, "Positive") # {}
    /\ LabelledAs(run[1].batch, "positive") # {}
    /\ run[1].response.val.kpis.positive = 1

\* C2: a run on the empty batch ends by returning a report with the four
\* KPI fields zero, no keyword image, an empty summary and a table without
\* rows.
C2_EmptyBatchReport ==
    \A r \in RunIds :
        (Finished(r) /\ run[r].batch = <<>>) =>
            /\ Returned(r)
            /\ LET k == run[r].response.val.kpis
                   h == run[r].response.val.html_report
               IN /\ k.total_mentions = 0 /\ k.positive = 0
                  /\ k.negative = 0 /\ k.neutral = 0
                  /\ h.keywords_freq_b64 = <<>>
                  /\ h.summary_text = <<>>
                  /\ h.top_table = <<>>

\* a whole document: every piece of one document, in order
IsWhole(got) ==
    /\ Len(got) = NChunks
    /\ \A i \in 1..Len(got) : got[i].part = i /\ got[i].doc = got[1].doc

\* C3: a read of the report that ends has read one whole document, whatever
\* a concurrent run was doing to the file.
C3_ReaderSeesWholeDocument == rd.pc = "done" => IsWhole(rd.got)

HasBadTimestamp(b) == \E i \in Indices(b) : ~ValidTimestamp(b[i].published_at)

\* C4: a run ends in failure without a response and with the report file as
\* it was when the run started; a batch holding a published_at that cannot
\* be converted ends in failure.
C4_FailedRunLeavesReport ==
    [][\A r \in RunIds :
          (~Finished(r) /\ run'[r].pc \in {"done", "failed"}) =>
              /\ HasBadTimestamp(run[r].batch) => run'[r].pc = "failed"
              /\ run'[r].pc = "failed" =>
                    /\ ~run'[r].response.some
                    /\ file' = run'[r].before.val]_vars

C4_Witness ==
    \E r \in RunIds :
        /\ run[r].pc = "failed"
        /\ HasBadTimestamp(run[r].batch)
        /\ lastOk.some
        /\ file = [exists |-> TRUE, data |-> Serialise(lastOk.val)]
        /\ run[r].before.val = file

\* every keyword of the batch, lowercased, records in batch order and
\* keywords in list order
FlatLowered(b) ==
    LET flat == Flatten([i \in Indices(b) |-> b[i].keywords])
    IN [i \in 1..Len(flat) |-> Lower(flat[i])]

\* the keywords a summary sentence names, in order
Named(summary) ==
    LET at == {i \in 1..Len(summary) :
                  summary[i] \notin {SentenceOpening, SentenceClosing, Comma, Et}}
        pos == SortAsc(at)
    IN [j \in 1..Len(pos) |-> summary[pos[j]]]

\* a ranks before b among the keywords all
RanksBefore(all, a, b) ==
    \/ Occurrences(all, a) > Occurrences(all, b)
    \/ /\ Occurrences(all, a) = Occurrences(all, b)
       /\ FirstIndex(all, a) < FirstIndex(all, b)

\* C5: with keywords present, the sentence names min(6, distinct) distinct
\* lowercased keywords, by count descending and, at equal counts, by first
\* appearance in the flattened sequence; every keyword left out ranks after
\* every keyword named.
C5_TopKeywords ==
    \A r \in RunIds :
        LET all == FlatLowered(run[r].batch)
            named == Named(run[r].response.val.html_report.summary_text)
        IN (Returned(r) /\ all # <<>>) =>
              /\ Len(named) = Min(TopKeywords, Cardinality(Range(all)))
              /\ Range(named) \subseteq Range(all)
              /\ \A i, j \in 1..Len(named) :
                    i < j => RanksBefore(all, named[i], named[j])
              /\ \A out \in Range(all) \ Range(named) :
                    \A i \in 1..Len(named) : RanksBefore(all, named[i], out)

\* more than six distinct keywords, a tie at the cut, and a keyword that only
\* lowercasing merges
C5_Witness ==
    /\ Returned(1)
    /\ LET all == FlatLowered(run[1].batch)
           named == Named(run[1].response.val.html_report.summary_text)
       IN /\ Cardinality(Range(all)) > TopKeywords
          /\ Len(named) = TopKeywords
          /\ named[1] = "ia" /\ Occurrences(all, "ia") = 2
          /\ named[2] = "politique" /\ Occurrences(all, "politique") = 2
          /\ \E out \in Range(all) \ Range(named) :
                Occurrences(all, out) = Occurrences(all, named[TopKeywords])

\* C6: with one distinct keyword the sentence names it without the " et "
\* conjunction.
C6_SingleKeywordNoConjunction ==
    \A r \in RunIds :
        (Returned(r) /\ Cardinality(Range(FlatLowered(run[r].batch))) = 1) =>
            LET text == run[r].response.val.html_report.summary_text
            IN /\ Named(text) = <<FlatLowered(run[r].batch)[1]>>
               /\ Et \notin Range(text)

AuthorsOf(b) == {b[i].author : i \in Indices(b)}

MentionsBy(b, a) == Cardinality({i \in Indices(b) : b[i].author = a})

\* the table of run r has min(5, distinct authors) rows, one per author, by
\* count non-increasing, each count the number of records of that author,
\* and no author left out has more mentions than an author in the table
AuthorTableOK(r) ==
    LET b == run[r].batch
        t == run[r].response.val.html_report.top_table
        shown == {t[i].key : i \in 1..Len(t)}
    IN /\ Len(t) = Min(TopAuthors, Cardinality(AuthorsOf(b)))
       /\ Cardinality(shown) = Len(t)
       /\ shown \subseteq AuthorsOf(b)
       /\ \A i \in 1..Len(t) : t[i].n = MentionsBy(b, t[i].key)
       /\ \A i \in 1..(Len(t) - 1) : t[i].n >= t[i + 1].n
       /\ \A a \in AuthorsOf(b) \ shown :
             \A i \in 1..Len(t) : MentionsBy(b, a) <= t[i].n

\* C7: for every batch (of convertible timestamps) the run produces an author
\* table with min(5, distinct authors) rows, sorted by count non-increasing,
\* with the right counts, leaving out no author with more mentions than one
\* it shows.
C7_AuthorTableEveryBatch ==
    \A r \in RunIds :
        (Finished(r) /\ ~HasBadTimestamp(run[r].batch)) =>
            (Returned(r) /\ AuthorTableOK(r))

\* C7, on the runs that return: the table they return is as C7 states.
C7_AuthorTableOfReturnedRuns == \A r \in RunIds : Returned(r) => AuthorTableOK(r)

\* six authors, so one is left out, the busiest not first in the batch
C7_Witness ==
    /\ Returned(1)
    /\ LET b == run[1].batch
           t == run[1].response.val.html_report.top_table
       IN /\ Cardinality(AuthorsOf(b)) > TopAuthors
          /\ Len(t) = TopAuthors
          /\ t[1].n = 2
          /\ t[1].key # b[1].author

\* the epoch value of a record whose limbs fit one integer
EpochValue(ts) == ts.hi * Limb + ts.lo

\* the instant ts falls on UTC day d
OnDay(ts, d) ==
    /\ d * DaySeconds <= EpochValue(ts)
    /\ EpochValue(ts) < (d + 1) * DaySeconds

RECURSIVE SumOfCounts(_)
SumOfCounts(rows) == IF rows = <<>> THEN 0 ELSE Head(rows).n + SumOfCounts(Tail(rows))

\* the daily series of run r has one entry per UTC calendar day that holds
\* a record, days strictly ascending, each count the number of records of
\* that day, and the counts add up to the number of records
DailySeriesOK(r) ==
    LET b == run[r].batch
        s == run[r].mentions_over_time
    IN /\ \A k \in 1..(Len(s) - 1) : s[k].key < s[k + 1].key
       /\ \A i \in Indices(b) :
             \E k \in 1..Len(s) : OnDay(b[i].published_at, s[k].key)
       /\ \A k \in 1..Len(s) :
             /\ s[k].n > 0
             /\ s[k].n = Cardinality({i \in Indices(b) :
                                         OnDay(b[i].published_at, s[k].key)})
       /\ SumOfCounts(s) = Len(b)

\* C8: for every batch (of convertible timestamps) the run produces a daily
\* series with one entry per UTC calendar day present, strictly ascending,
\* each count the number of records of the day, the counts adding up to the
\* number of records.
C8_DailySeriesEveryBatch ==
    \A r \in RunIds :
        (Finished(r) /\ ~HasBadTimestamp(run[r].batch)) =>
            (Returned(r) /\ DailySeriesOK(r))

\* C8, on the runs that return: their daily series is as C8 states.
C8_DailySeriesOfReturnedRuns == \A r \in RunIds : Returned(r) => DailySeriesOK(r)

\* three days, given out of order, one of them before the epoch
C8_Witness ==
    /\ Returned(1)
    /\ Len(run[1].mentions_over_time) = 3
    /\ run[1].mentions_over_time[1].key = -1
    /\ run[1].batch[1].published_at = Epoch(0, 86400)
    /\ run[1].batch[2].published_at = Epoch(0, 86399)

\* what a run on batch b returns when it is the only one
Alone(b) ==
    LET df == Frame(b)
        all == AllKeywords(df)
        fig1 == [Figure(1, "line", MentionsOverTime(df)) EXCEPT !.xrot = TRUE]
    IN [kpis |-> Kpis(df),
        html_report |-> HtmlReport(Kpis(df), FigToBase64(fig1), KeywordsFreq(all),
                                   SummaryText(all), SentimentsAuteurs(df),
                                   TopTable(df))]

\* C9: a run returns what it returns when alone, and plt.xticks of a run acts
\* on the figure that run made, whatever other requests are in flight.
C9_RunsDoNotInterfere ==
    [][\A r \in RunIds :
          /\ (run[r].pc # "done" /\ run'[r].pc = "done") =>
                run'[r].response.val = Alone(run[r].batch)
          /\ (run[r].pc = "plotted" /\ run'[r].pc = "rotated") =>
                /\ figs # <<>>
                /\ figs[Len(figs)].num = run[r].fig1
          /\ (run[r].pc = "rotated" /\ run'[r].pc = "saved") =>
                /\ Len(figs') = Len(figs) - 1
                /\ run[r].fig1 \notin {figs'[i].num : i \in 1..Len(figs')}]_vars

\* one request has its figure open and its ticks rotated while another, with
\* a different batch, is waiting for the event loop
C9_Witness ==
    \E r, q \in RunIds :
        /\ r # q
        /\ run[r].pc = "rotated"
        /\ run[q].pc = "queued"
        /\ run[q].batch # run[r].batch
        /\ ~FrameRaises(run[q].batch)

\* C10: a read that no write overlaps returns the document of the latest run
\* that returned; a read fails exactly when no run has returned yet; and the
\* file a run leaves is the html_report of its response.
C10_ReadReturnsLatestReport ==
    [][/\ (rd.pc = "reading" /\ rd'.pc = "done" /\ ~rd.overlap) =>
             /\ lastOk.some
             /\ rd'.got = Serialise(lastOk.val)
       /\ (rd.pc = "idle" /\ rd'.pc # "idle" /\ ~WriteInProgress) =>
             (rd'.pc = "failed" <=> ~lastOk.some)
       /\ \A r \in RunIds :
             (run[r].pc # "done" /\ run'[r].pc = "done") =>
                 /\ file' = [exists |-> TRUE,
                             data |-> Serialise(run'[r].response.val.html_report)]
                 /\ lastOk' = Some(run'[r].response.val.html_report)]_vars

\* a read no write overlapped has returned the second of two documents
C10_Witness ==
    /\ rd.pc = "done"
    /\ ~rd.overlap
    /\ lastOk.some
    /\ rd.got = Serialise(lastOk.val)
    /\ \E r \in RunIds :
          /\ run[r].pc = "done"
          /\ run[r].response.val.html_report # lastOk.val

====
